---- MODULE Spec2Model ----
(***************************************************************************)
(* godesktopgui: a process that parses one HTML template out of a          *)
(* compiled-in file system, registers two routes on the default mux,       *)
(* starts the HTTP listener in a goroutine, sleeps, opens the browser and  *)
(* then blocks for ever (src/cmd/main.go).                                 *)
(*                                                                         *)
(* A URL path is a record [segs, slash]: the segments between the slashes  *)
(* and whether the path ends in a slash; "/" is [<<>>, TRUE],              *)
(* "/files/../thegui" is [<<"files", "..", "thegui">>, FALSE] and          *)
(* "//thegui" is [<<"", "thegui">>, FALSE].  A file of the compiled-in     *)
(* file system is named by its segments alone.                             *)
(***************************************************************************)
EXTENDS Integers, Sequences, FiniteSets, TLC

\* Number of requests the model lets the listener accept.
MaxRequests == 2

VARIABLES
    store,          \* generate.CompiledFileSystem: file name -> content
    htmlTemplate,   \* the package variable htmlTemplate (Nil until assigned)
    tmplWrites,     \* history: number of assignments to htmlTemplate
    routes,         \* patterns registered on http.DefaultServeMux
    mainPc,         \* position of the main goroutine
    gPc,            \* position of the listener goroutine
    lis,            \* the listener: "none", "listening" or "failed"
    browser,        \* URLs handed to browser.OpenURL
    wait,           \* number of values sent on the channel `wait`
    proc,           \* "running", or how the process ended
    reqs,           \* the requests: slot -> request record
    renders         \* history: number of guiHandler calls so far

vars == <<store, htmlTemplate, tmplWrites, routes, mainPc, gPc, lis, browser,
          wait, proc, reqs, renders>>

Nil == "nil"

\* A *template.Template: the nil pointer, or a parsed tree.
NilTemplate == [nil |-> TRUE, tree |-> <<>>]
Template(tree) == [nil |-> FALSE, tree |-> tree]

P(segs, slash) == [segs |-> segs, slash |-> slash]

----------------------------------------------------------------------------
(* The compiled-in file system and the template document                   *)

\* parseTemplate's fName, "files/templates/maingui.html".
TemplateName == <<"files", "templates", "maingui.html">>

Text(s) == [k |-> "text", v |-> s, body |-> <<>>]
Field(f) == [k |-> "field", v |-> f, body |-> <<>>]
Range(f, body) == [k |-> "range", v |-> f, body |-> body]
SyntaxError == [k |-> "syntax_error", v |-> "", body |-> <<>>]

\* The page template: scalar substitutions and one iteration over the rows.
GoodDoc ==
    << Text("<title>"), Field("Title"), Text("</title>"),
       Text("<commits>"), Field("Commits"), Text("</commits>"),
       Range("RowsInTable", <<"Icon", "File", "Comment", "Ago">>),
       Text("</html>") >>

\* A template whose first action names a field GuiData does not have.
BadFirstDoc == << Field("Branches"), Text("</html>") >>

\* A template that fails after output has been produced: its row markup
\* names a field TableRow does not have.
BadRowDoc ==
    << Text("<title>"), Field("Title"), Text("</title>"),
       Range("RowsInTable", <<"File", "Size">>), Text("</html>") >>

\* A document template.Parse rejects.
UnparsableDoc == << Text("<title>"), SyntaxError >>

TemplateDocs == {GoodDoc, BadFirstDoc, BadRowDoc, UnparsableDoc}

StaticFiles == (<<"files", "css", "app.css">> :> <<Text("body{}")>>)

\* The file systems the build can compile in: with or without the template.
Stores ==
    {StaticFiles} \cup {StaticFiles @@ (TemplateName :> d) : d \in TemplateDocs}

\* CompiledFileSystem.Open followed by reading the file.
Open(fs, name) ==
    IF name \in DOMAIN fs
    THEN [err |-> FALSE, contents |-> fs[name]]
    ELSE [err |-> TRUE, contents |-> <<>>]

----------------------------------------------------------------------------
(* parseTemplate, GuiData and populateGuiData                              *)

\* template.New("gui").Parse: fails on a document with a syntax error.
Parse(contents) ==
    IF \E i \in 1..Len(contents) : contents[i].k = "syntax_error"
    THEN [err |-> TRUE, t |-> NilTemplate]
    ELSE [err |-> FALSE, t |-> Template(contents)]

\* A parseTemplate that hands back a nil template where it should log.Fatalf.
parseTemplateNoFatal(fs) ==
    LET file == Open(fs, TemplateName)
        parsed == Parse(file.contents)
    IN  IF file.err \/ parsed.err
        THEN [fatal |-> FALSE, t |-> NilTemplate]
        ELSE [fatal |-> FALSE, t |-> parsed.t]

\* parseTemplate: fatal when the file cannot be opened or parsed.
parseTemplate(fs) ==
    LET file == Open(fs, TemplateName)
        parsed == Parse(file.contents)
    IN  IF file.err
        THEN [fatal |-> TRUE, t |-> NilTemplate]
        ELSE IF parsed.err
             THEN [fatal |-> TRUE, t |-> NilTemplate]
             ELSE [fatal |-> FALSE, t |-> parsed.t]

TableRow(file, comment, ago, icon) ==
    [File |-> file, Comment |-> comment, Ago |-> ago, Icon |-> icon]

\* A populateGuiData that appends the rows in the wrong order.
populateGuiDataSwapped ==
    [ Title |-> "Golang Standalone GUI Example",
      Unwatch |-> 3, Star |-> 0, Fork |-> 2, Commits |-> 31, Branch |-> 0,
      Release |-> 1, Contributor |-> 1,
      RowsInTable |->
        << TableRow("do_that.go", "Initial commit", "1 month ago", "file"),
           TableRow("do_this.go", "Initial commit", "1 month ago", "file"),
           TableRow("index.go", "Initial commit", "1 month ago", "file"),
           TableRow("resources", "Initial commit", "2 months ago", "folder-open"),
           TableRow("docs", "Initial commit", "2 months ago", "folder-open") >> ]

\* A populateGuiData that counts the commits up with every page served.
populateGuiDataCounting ==
    [ Title |-> "Golang Standalone GUI Example",
      Unwatch |-> 3, Star |-> 0, Fork |-> 2, Commits |-> 31 + renders,
      Branch |-> 0, Release |-> 1, Contributor |-> 1,
      RowsInTable |->
        << TableRow("do_this.go", "Initial commit", "1 month ago", "file"),
           TableRow("do_that.go", "Initial commit", "1 month ago", "file"),
           TableRow("index.go", "Initial commit", "1 month ago", "file"),
           TableRow("resources", "Initial commit", "2 months ago", "folder-open"),
           TableRow("docs", "Initial commit", "2 months ago", "folder-open") >> ]

\* populateGuiData: Branch is not set and keeps Go's zero value.
populateGuiData ==
    [ Title |-> "Golang Standalone GUI Example",
      Unwatch |-> 3, Star |-> 0, Fork |-> 2, Commits |-> 31, Branch |-> 0,
      Release |-> 1, Contributor |-> 1,
      RowsInTable |->
        << TableRow("do_this.go", "Initial commit", "1 month ago", "file"),
           TableRow("do_that.go", "Initial commit", "1 month ago", "file"),
           TableRow("index.go", "Initial commit", "1 month ago", "file"),
           TableRow("resources", "Initial commit", "2 months ago", "folder-open"),
           TableRow("docs", "Initial commit", "2 months ago", "folder-open") >> ]

\* The integer fields of GuiData; the others are strings or the row slice.
IntFields == {"Unwatch", "Star", "Fork", "Commits", "Branch", "Release", "Contributor"}

----------------------------------------------------------------------------
(* http.ResponseWriter                                                     *)

\* No Location header.
NoLocation == P(<<>>, FALSE)

\* A response: status line, Location header, text written, file content copied.
NewResponse ==
    [wroteHeader |-> FALSE, status |-> 0, location |-> NoLocation,
     body |-> <<>>, content |-> <<>>]

\* WriteHeader: a second call is superfluous and leaves the status alone.
WriteHeader(w, code) ==
    IF w.wroteHeader THEN w ELSE [w EXCEPT !.wroteHeader = TRUE, !.status = code]

\* Write: the first call sends the header with status 200 if none was sent.
Write(w, chunk) ==
    LET h == WriteHeader(w, 200)
    IN  [h EXCEPT !.body = Append(@, chunk)]

\* http.Error: the status line, then the message.
Error(w, msg, code) == Write(WriteHeader(w, code), msg)

\* http.Redirect, as the mux and the file server use it.
Redirect(w, target, code) ==
    WriteHeader([w EXCEPT !.location = target], code)

----------------------------------------------------------------------------
(* Template execution                                                      *)

Digit(d) == CASE d = 0 -> "0" [] d = 1 -> "1" [] d = 2 -> "2" [] d = 3 -> "3"
              [] d = 4 -> "4" [] d = 5 -> "5" [] d = 6 -> "6" [] d = 7 -> "7"
              [] d = 8 -> "8" [] d = 9 -> "9"

RECURSIVE Itoa(_)
\* The decimal text of a non-negative integer, as the template prints it.
Itoa(n) == IF n < 10 THEN Digit(n) ELSE Itoa(n \div 10) \o Digit(n % 10)

ErrField(f) == [err |-> TRUE, text |-> "can't evaluate field " \o f]
Chunk(s) == [err |-> FALSE, text |-> s]

\* The writes one row of a range makes: one per field of the row markup.
RowSteps(row, body) ==
    [j \in 1..Len(body) |->
        IF body[j] \in DOMAIN row THEN Chunk(row[body[j]]) ELSE ErrField(body[j])]

RECURSIVE RangeSteps(_, _, _)
\* The writes of {{range}}: the rows in slice order, from row i on.
RangeSteps(rows, body, i) ==
    IF i > Len(rows) THEN <<>>
    ELSE <<Chunk("<tr>")>> \o RowSteps(rows[i], body) \o <<Chunk("</tr>")>>
         \o RangeSteps(rows, body, i + 1)

\* The writes one node of the template makes against the data.
NodeSteps(node, data) ==
    CASE node.k = "text" -> <<Chunk(node.v)>>
      [] node.k = "field" ->
            IF node.v \notin DOMAIN data THEN <<ErrField(node.v)>>
            ELSE IF node.v \in IntFields THEN <<Chunk(Itoa(data[node.v]))>>
            ELSE <<Chunk(data[node.v])>>
      [] node.k = "range" ->
            IF node.v \notin DOMAIN data THEN <<ErrField(node.v)>>
            ELSE RangeSteps(data[node.v], node.body, 1)

RECURSIVE Steps(_, _, _)
Steps(t, data, i) ==
    IF i > Len(t) THEN <<>> ELSE NodeSteps(t[i], data) \o Steps(t, data, i + 1)

RECURSIVE RunSteps(_, _, _)
\* Execution streams to the writer and stops at the first error: the
\* writer and the error after the first n steps.
RunSteps(w, steps, n) ==
    IF n = 0 THEN [w |-> w, err |-> Nil]
    ELSE LET prev == RunSteps(w, steps, n - 1)
         IN  IF prev.err # Nil THEN prev
             ELSE IF steps[n].err THEN [w |-> prev.w, err |-> steps[n].text]
             ELSE [w |-> Write(prev.w, steps[n].text), err |-> Nil]

\* htmlTemplate.ExecuteTemplate(w, "gui", data); a nil template panics.
ExecuteTemplate(t, w, data) ==
    IF t.nil THEN [w |-> w, err |-> "panic"]
    ELSE LET steps == Steps(t.tree, data, 1)
         IN  RunSteps(w, steps, Len(steps))

----------------------------------------------------------------------------
(* http.ServeMux and http.FileServer                                       *)

FilesPattern == P(<<"files">>, TRUE)
GuiPattern == P(<<"thegui">>, FALSE)

RECURSIVE CleanSegs(_, _, _)
\* path.Clean on a rooted path: drops "" and ".", and ".." pops a segment.
CleanSegs(segs, i, acc) ==
    IF i > Len(segs) THEN acc
    ELSE IF segs[i] \in {"", "."} THEN CleanSegs(segs, i + 1, acc)
    ELSE IF segs[i] = ".."
         THEN CleanSegs(segs, i + 1,
                        IF acc = <<>> THEN acc ELSE SubSeq(acc, 1, Len(acc) - 1))
    ELSE CleanSegs(segs, i + 1, Append(acc, segs[i]))

\* net/http cleanPath: path.Clean, with the trailing slash put back.
cleanPath(p) ==
    LET np == CleanSegs(p.segs, 1, <<>>)
    IN  P(np, IF np = <<>> THEN TRUE ELSE p.slash)

\* p + "/" as a path.
AddSlash(p) == IF p.slash THEN P(Append(p.segs, ""), TRUE) ELSE P(p.segs, TRUE)

IsPrefix(s, t) == Len(s) <= Len(t) /\ SubSeq(t, 1, Len(s)) = s

\* A pattern matches its own path; one ending in "/" matches its subtree.
Matches(pattern, p) ==
    \/ pattern = p
    \/ /\ pattern.slash
       /\ IsPrefix(pattern.segs, p.segs)
       /\ (Len(p.segs) > Len(pattern.segs) \/ p.slash)

\* A mux whose subtree patterns match only their own path.
muxMatchExactOnly(rts, p) ==
    LET hit == {r \in rts : r.pattern = p}
    IN  IF hit = {} THEN "notfound" ELSE (CHOOSE r \in hit : TRUE).h

\* ServeMux.handler: the exact pattern, else the longest matching subtree.
muxMatch(rts, p) ==
    LET hit == {r \in rts : Matches(r.pattern, p)}
        best == CHOOSE r \in hit :
                    \A q \in hit : Len(q.pattern.segs) <= Len(r.pattern.segs)
    IN  IF hit = {} THEN "notfound" ELSE best.h

\* ServeMux.Handler: /tree is redirected to a registered /tree/, an unclean
\* path to its clean form, and the rest goes to the matching handler.
muxHandler(rts, p) ==
    LET path == cleanPath(p)
        patterns == {r.pattern : r \in rts}
    IN  IF path \notin patterns /\ AddSlash(path) \in patterns
        THEN [h |-> "redirect", target |-> AddSlash(path)]
        ELSE IF path # p
        THEN [h |-> "redirect", target |-> path]
        ELSE [h |-> muxMatch(rts, p), target |-> NoLocation]

\* The last segment of a path, "" for the root.
Base(p) == IF p.segs = <<>> THEN "" ELSE p.segs[Len(p.segs)]

\* http.FileServer over the compiled-in file system: serveFile.
FileServer(fs, w, p) ==
    LET name == CleanSegs(p.segs, 1, <<>>)
        file == Open(fs, name)
    IN  IF ~p.slash /\ Base(p) = "index.html"
        THEN Redirect(w, P(SubSeq(p.segs, 1, Len(p.segs) - 1), TRUE), 301)
        ELSE IF file.err THEN Error(w, "404 page not found", 404)
        ELSE IF p.slash THEN Redirect(w, P(p.segs, FALSE), 301)
        ELSE [WriteHeader(w, 200) EXCEPT !.content = file.contents]

----------------------------------------------------------------------------
(* The state machine                                                       *)

PageURL == "http://127.0.0.1:8080/thegui"

\* The request paths the model sends.
Paths ==
    { P(<<>>, TRUE),                                    \* /
      P(<<"thegui">>, FALSE),                           \* /thegui
      P(<<"thegui">>, TRUE),                            \* /thegui/
      P(<<"files">>, FALSE),                            \* /files
      P(<<"files">>, TRUE),                             \* /files/
      P(<<"files", "css", "app.css">>, FALSE),          \* /files/css/app.css
      P(<<"files", "css", "app.css">>, TRUE),           \* /files/css/app.css/
      P(<<"files", "js", "app.js">>, FALSE),            \* /files/js/app.js
      P(<<"files", "index.html">>, FALSE),              \* /files/index.html
      P(TemplateName, FALSE),                           \* the template itself
      P(<<"files", "..", "thegui">>, FALSE),            \* /files/../thegui
      P(<<"", "thegui">>, FALSE) }                      \* //thegui

Slots == 1..MaxRequests

FreeReq ==
    [st |-> "free", path |-> NoLocation, h |-> Nil, w |-> NewResponse,
     outcome |-> Nil, calls |-> {}, data |-> <<>>]

Running == proc = "running"

\* os.Exit, or the process being killed: its connections end with it.
NoRequests == [i \in Slots |-> FreeReq]

Init ==
    /\ store \in Stores
    /\ htmlTemplate = NilTemplate
    /\ tmplWrites = 0
    /\ routes = {}
    /\ mainPc = "parse"
    /\ gPc = "notstarted"
    /\ lis = "none"
    /\ browser = <<>>
    /\ wait = 0
    /\ proc = "running"
    /\ reqs = [i \in Slots |-> FreeReq]
    /\ renders = 0

\* A main that assigns the parsed template to a shadowing local variable.
MainParseShadowed ==
    /\ Running /\ mainPc = "parse"
    /\ IF parseTemplate(store).fatal
       THEN proc' = "fatal: template" /\ UNCHANGED mainPc
       ELSE mainPc' = "handle" /\ UNCHANGED proc
    /\ UNCHANGED <<store, htmlTemplate, tmplWrites, routes, gPc, lis, browser,
                   wait, reqs, renders>>

\* main: htmlTemplate = parseTemplate(); log.Fatalf ends the process.
MainParse ==
    /\ Running /\ mainPc = "parse"
    /\ LET r == parseTemplate(store)
       IN  IF r.fatal
           THEN /\ proc' = "fatal: template"
                /\ reqs' = NoRequests
                /\ UNCHANGED <<htmlTemplate, tmplWrites, mainPc>>
           ELSE /\ htmlTemplate' = r.t
                /\ tmplWrites' = tmplWrites + 1
                /\ mainPc' = "handle"
                /\ UNCHANGED <<proc, reqs>>
    /\ UNCHANGED <<store, routes, gPc, lis, browser, wait, renders>>

\* main: http.Handle("/files/", ...) and http.HandleFunc("/thegui", ...).
MainHandle ==
    /\ Running /\ mainPc = "handle"
    /\ routes' = routes \cup { [pattern |-> FilesPattern, h |-> "fileserver"],
                               [pattern |-> GuiPattern, h |-> "gui"] }
    /\ mainPc' = "go"
    /\ UNCHANGED <<store, htmlTemplate, tmplWrites, gPc, lis, browser, wait,
                   proc, reqs, renders>>

\* main: go func() { ... }().
MainGo ==
    /\ Running /\ mainPc = "go"
    /\ gPc' = "listen"
    /\ mainPc' = "sleep"
    /\ UNCHANGED <<store, htmlTemplate, tmplWrites, routes, lis, browser, wait,
                   proc, reqs, renders>>

\* main: time.Sleep(3 * time.Second) returns, whatever the goroutine did.
MainSleep ==
    /\ Running /\ mainPc = "sleep"
    /\ mainPc' = "open"
    /\ UNCHANGED <<store, htmlTemplate, tmplWrites, routes, gPc, lis, browser,
                   wait, proc, reqs, renders>>

\* main: browser.OpenURL; an error is fatal, else the channel is made.
MainOpenURL ==
    /\ Running /\ mainPc = "open"
    /\ browser' = Append(browser, PageURL)
    /\ \E ok \in BOOLEAN :
          IF ok
          THEN mainPc' = "wait" /\ wait' = 0 /\ UNCHANGED <<proc, reqs>>
          ELSE /\ proc' = "fatal: browser"
               /\ reqs' = NoRequests
               /\ UNCHANGED <<mainPc, wait>>
    /\ UNCHANGED <<store, htmlTemplate, tmplWrites, routes, gPc, lis, renders>>

\* A receive that does not block.
ChanRecvReadyAlways(sent) == sent >= 0

\* <-wait can proceed only when a value has been sent on the channel.
ChanRecvReady(sent) == sent > 0

\* main: <-wait, then log.Printf("Finished normally") and the return.
MainAwait ==
    /\ Running /\ mainPc = "wait"
    /\ IF ChanRecvReady(wait)
       THEN /\ wait' = wait - 1
            /\ mainPc' = "returned"
            /\ proc' = "finished normally"
            /\ reqs' = NoRequests
       ELSE UNCHANGED <<wait, mainPc, proc, reqs>>
    /\ UNCHANGED <<store, htmlTemplate, tmplWrites, routes, gPc, lis, browser,
                   renders>>

\* goroutine: http.ListenAndServe binds :8080 and starts accepting.
GoListen ==
    /\ Running /\ gPc = "listen"
    /\ lis' = "listening"
    /\ gPc' = "serve"
    /\ UNCHANGED <<store, htmlTemplate, tmplWrites, routes, mainPc, browser,
                   wait, proc, reqs, renders>>

\* goroutine: http.ListenAndServe returns an error (the port cannot be
\* bound, or Accept fails for good).
GoListenError ==
    /\ Running /\ gPc \in {"listen", "serve"}
    /\ lis' = "failed"
    /\ gPc' = "err"
    /\ UNCHANGED <<store, htmlTemplate, tmplWrites, routes, mainPc, browser,
                   wait, proc, reqs, renders>>

\* A goroutine that only returns when ListenAndServe fails.
GoFatalDropped ==
    /\ Running /\ gPc = "err"
    /\ gPc' = "returned"
    /\ UNCHANGED <<store, htmlTemplate, tmplWrites, routes, mainPc, lis,
                   browser, wait, proc, reqs, renders>>

\* goroutine: if err != nil { log.Fatalf(...) }.
GoFatal ==
    /\ Running /\ gPc = "err"
    /\ proc' = "fatal: listen"
    /\ reqs' = NoRequests
    /\ UNCHANGED <<store, htmlTemplate, tmplWrites, routes, mainPc, gPc, lis,
                   browser, wait, renders>>

\* The server accepts a request and hands it to a goroutine of its own.
Accept(i, p) ==
    /\ Running /\ lis = "listening"
    /\ reqs[i].st = "free"
    /\ \A j \in Slots : j < i => reqs[j].st # "free"
    /\ reqs' = [reqs EXCEPT ![i] = [FreeReq EXCEPT !.st = "accepted", !.path = p]]
    /\ UNCHANGED <<store, htmlTemplate, tmplWrites, routes, mainPc, gPc, lis,
                   browser, wait, proc, renders>>

\* The handler returns: a response without a status line gets 200.
Finish(w) == WriteHeader(w, 200)

\* The mux's own answers: the redirect handler and NotFound.
ServeMuxOwn(i) ==
    /\ Running /\ reqs[i].st = "accepted"
    /\ LET d == muxHandler(routes, reqs[i].path)
       IN  /\ d.h \in {"redirect", "notfound"}
           /\ reqs' = [reqs EXCEPT ![i] =
                 [@ EXCEPT !.st = "done", !.h = d.h,
                    !.w = IF d.h = "redirect"
                          THEN Redirect(@, d.target, 301)
                          ELSE Error(@, "404 page not found", 404),
                    !.outcome = IF d.h = "redirect" THEN "redirect"
                                ELSE "not-found"]]
    /\ UNCHANGED <<store, htmlTemplate, tmplWrites, routes, mainPc, gPc, lis,
                   browser, wait, proc, renders>>

\* What the file server's response means to the client.
AssetOutcome(w) ==
    CASE w.status = 200 -> "served"
      [] w.status = 404 -> "not-found"
      [] OTHER -> "redirect"

\* A request under /files/: http.FileServer(generate.CompiledFileSystem).
ServeAsset(i) ==
    /\ Running /\ reqs[i].st = "accepted"
    /\ LET d == muxHandler(routes, reqs[i].path)
           w == Finish(FileServer(store, reqs[i].w, reqs[i].path))
       IN  /\ d.h = "fileserver"
           /\ reqs' = [reqs EXCEPT ![i] =
                 [@ EXCEPT !.st = "done", !.h = d.h, !.w = w,
                    !.outcome = AssetOutcome(w), !.calls = {"store"}]]
    /\ UNCHANGED <<store, htmlTemplate, tmplWrites, routes, mainPc, gPc, lis,
                   browser, wait, proc, renders>>

\* guiHandler: build the data, execute the template into w, and on an
\* error call http.Error with status 500.  A panic is recovered by the
\* server, which drops the connection.
guiHandler(t, w) ==
    LET dynamicData == populateGuiData
        r == ExecuteTemplate(t, w, dynamicData)
    IN  IF r.err = "panic"
        THEN [w |-> w, outcome |-> "panic", data |-> <<dynamicData>>]
        ELSE IF r.err # Nil
        THEN [w |-> Finish(Error(r.w, r.err, 500)), outcome |-> "render-error",
              data |-> <<dynamicData>>]
        ELSE [w |-> Finish(r.w), outcome |-> "rendered", data |-> <<dynamicData>>]

\* A page handler that treats a render error like the start-up errors.
ServePageFatal(i) ==
    /\ Running /\ reqs[i].st = "accepted"
    /\ muxHandler(routes, reqs[i].path).h = "gui"
    /\ LET g == guiHandler(htmlTemplate, reqs[i].w)
       IN  /\ reqs' = [reqs EXCEPT ![i] =
                 [@ EXCEPT !.st = "done", !.h = "gui", !.w = g.w,
                    !.outcome = g.outcome, !.data = g.data,
                    !.calls = {"builder", "renderer"}]]
           /\ proc' = IF g.outcome = "render-error" THEN "fatal: render" ELSE proc
    /\ renders' = renders + 1
    /\ UNCHANGED <<store, htmlTemplate, tmplWrites, routes, mainPc, gPc, lis,
                   browser, wait>>

\* A request for /thegui: guiHandler.
ServePage(i) ==
    /\ Running /\ reqs[i].st = "accepted"
    /\ muxHandler(routes, reqs[i].path).h = "gui"
    /\ LET g == guiHandler(htmlTemplate, reqs[i].w)
       IN  reqs' = [reqs EXCEPT ![i] =
                 [@ EXCEPT !.st = "done", !.h = "gui", !.w = g.w,
                    !.outcome = g.outcome, !.data = g.data,
                    !.calls = {"builder", "renderer"}]]
    /\ renders' = renders + 1
    /\ UNCHANGED <<store, htmlTemplate, tmplWrites, routes, mainPc, gPc, lis,
                   browser, wait, proc>>

\* The process is ended from outside (a termination signal).
Kill ==
    /\ Running
    /\ proc' = "killed"
    /\ reqs' = NoRequests
    /\ UNCHANGED <<store, htmlTemplate, tmplWrites, routes, mainPc, gPc, lis,
                   browser, wait, renders>>

Next ==
    \/ MainParse
    \/ MainHandle
    \/ MainGo
    \/ MainSleep
    \/ MainOpenURL
    \/ MainAwait
    \/ GoListen
    \/ GoListenError
    \/ GoFatal
    \/ \E i \in Slots, p \in Paths : Accept(i, p)
    \/ \E i \in Slots : ServeMuxOwn(i)
    \/ \E i \in Slots : ServeAsset(i)
    \/ \E i \in Slots : ServePage(i)
    \/ Kill

Spec == Init /\ [][Next]_vars

\* The Go scheduler runs a runnable goroutine: the listener goroutine's
\* error check is not postponed for ever.
FairSpec == Spec /\ WF_vars(GoFatal)

----------------------------------------------------------------------------
(* Properties                                                              *)

Done(i) == reqs[i].st = "done"

\* The template document is missing from the file system or does not parse.
TemplateUnusable ==
    \/ TemplateName \notin DOMAIN store
    \/ \E n \in 1..Len(store[TemplateName]) :
          store[TemplateName][n].k = "syntax_error"

\* C1: when the template document is absent or unparsable, the process
\* never gets past parseTemplate: no route is registered, the listener
\* goroutine is not started, nothing is bound or accepted, the browser
\* launcher is not invoked, and main ends in the template's fatal error.
C1_AbortBeforeListen ==
    TemplateUnusable =>
        /\ routes = {}
        /\ gPc = "notstarted"
        /\ lis = "none"
        /\ browser = <<>>
        /\ mainPc = "parse"
        /\ htmlTemplate.nil
        /\ \A i \in Slots : reqs[i].st = "free"
        /\ proc \in {"running", "fatal: template", "killed"}

C1_Witness == TemplateUnusable /\ proc = "fatal: template"

\* C2: whenever the browser launcher is invoked, the listener has already
\* bound its port and is accepting requests.
C2_BrowserAfterListening == [][browser' # browser => lis = "listening"]_vars

\* C3: every page request whose render fails ends with the HTTP status 500,
\* and the process is not ended by it.
C3_RenderErrorIs500 ==
    \A i \in Slots :
        reqs[i].outcome = "render-error" =>
            reqs[i].w.status = 500 /\ proc # "fatal: render"

FilesPath == P(<<"files">>, FALSE)

\* The path starts with "/files/".
HasFilesPrefix(p) ==
    /\ p.segs # <<>>
    /\ p.segs[1] = "files"
    /\ (Len(p.segs) > 1 \/ p.slash)

\* The path has no empty, "." or ".." segment.
Canonical(p) == \A n \in 1..Len(p.segs) : p.segs[n] \notin {"", ".", ".."}

\* C4 as first stated: a request is an asset request, the page request or
\* unmatched by its path alone, with the terminal states of its class.
C4_ThreeClasses ==
    \A i \in Slots : Done(i) =>
        LET r == reqs[i] IN
        IF HasFilesPrefix(r.path)
        THEN r.calls = {"store"} /\ r.outcome \in {"served", "not-found"}
        ELSE IF r.path = GuiPattern
        THEN /\ r.calls = {"builder", "renderer"}
             /\ r.outcome \in {"rendered", "render-error"}
        ELSE r.outcome = "not-found" /\ r.calls = {}

\* C4, amended: the mux answers a path that is not canonical, and the path
\* /files, with a 301 redirect of its own; a canonical path under /files/
\* goes to the file server over the asset store, which serves a file that
\* is present, answers 404 for one that is absent and redirects a path
\* ending in /index.html or naming a file with a trailing slash; /thegui
\* goes to the builder and the renderer; every other path gets 404 and
\* reaches neither the store, the builder nor the renderer.
C4_Dispatch ==
    \A i \in Slots : Done(i) =>
        LET r == reqs[i]
            p == r.path
            present == p.segs \in DOMAIN store
            index == ~p.slash /\ Base(p) = "index.html"
        IN
        IF ~Canonical(p) \/ p = FilesPath
        THEN /\ r.outcome = "redirect" /\ r.w.status = 301 /\ r.calls = {}
             /\ r.w.location # p /\ Canonical(r.w.location)
             /\ (p = FilesPath => r.w.location = FilesPattern)
        ELSE IF HasFilesPrefix(p)
        THEN /\ r.h = "fileserver" /\ r.calls = {"store"}
             /\ r.outcome \in {"served", "not-found", "redirect"}
             /\ r.outcome = "served" <=> (present /\ ~p.slash /\ ~index)
             /\ r.outcome = "not-found" <=> (~present /\ ~index)
             /\ r.outcome = "served" =>
                    r.w.status = 200 /\ r.w.content = store[p.segs]
             /\ r.outcome = "not-found" => r.w.status = 404
             /\ r.outcome = "redirect" => r.w.status = 301
        ELSE IF p = GuiPattern
        THEN /\ r.h = "gui" /\ r.calls = {"builder", "renderer"}
             /\ r.outcome \in {"rendered", "render-error"}
        ELSE /\ r.outcome = "not-found" /\ r.w.status = 404 /\ r.calls = {}

C4_Witness ==
    /\ \E i \in Slots : Done(i) /\ reqs[i].path = FilesPath
    /\ \E i \in Slots : Done(i) /\ reqs[i].outcome = "served"

\* C5: htmlTemplate is assigned once, before the listener goroutine is
\* started, and never again; the file system is never written; so every
\* request finds the parsed template and no handler meets a nil one.
C5_TemplateWrittenOnce ==
    /\ [](/\ tmplWrites <= 1
          /\ (gPc # "notstarted" \/ lis # "none") =>
                /\ tmplWrites = 1
                /\ ~htmlTemplate.nil
                /\ htmlTemplate.tree = store[TemplateName]
          /\ \A i \in Slots :
                /\ reqs[i].st # "free" => tmplWrites = 1 /\ ~htmlTemplate.nil
                /\ reqs[i].outcome # "panic")
    /\ [][/\ store' = store
          /\ (tmplWrites >= 1 => htmlTemplate' = htmlTemplate)
          /\ (htmlTemplate' # htmlTemplate => gPc = "notstarted")]_vars

C5_Witness ==
    /\ \A i \in Slots : reqs[i].st = "accepted"
    /\ \E i \in Slots : reqs[i].path = GuiPattern

\* C6: once ListenAndServe has returned an error the process ends; it does
\* not stay alive without a listener.
C6_ListenErrorEndsProcess == (lis = "failed") ~> (proc # "running")

C6_Witness == lis = "failed" /\ proc = "fatal: listen" /\ mainPc = "wait"

\* C7: a request that ends in not-found or render-error changes nothing
\* but its own record: the template, the file system, the routes, the
\* listener, the process and every other request are as before; and two
\* requests for the same path get the same response, whatever was served,
\* or failed, in between.
C7_RequestErrorIsLocal ==
    /\ [][\A i \in Slots :
            (/\ reqs[i].st = "accepted"
             /\ reqs'[i].outcome \in {"not-found", "render-error"}) =>
                /\ htmlTemplate' = htmlTemplate /\ store' = store
                /\ routes' = routes /\ lis' = lis /\ proc' = proc
                /\ gPc' = gPc /\ mainPc' = mainPc
                /\ \A j \in Slots \ {i} : reqs'[j] = reqs[j]]_vars
    /\ [](\A i, j \in Slots :
            (Done(i) /\ Done(j) /\ reqs[i].path = reqs[j].path) =>
                reqs[i].w = reqs[j].w /\ reqs[i].outcome = reqs[j].outcome)

C7_Witness ==
    \E i, j \in Slots :
        /\ Done(i) /\ reqs[i].outcome = "render-error"
        /\ Done(j) /\ reqs[j].outcome = "served"
        /\ Running /\ lis = "listening"

\* The file names of the five rows, in display order.
RowFiles == <<"do_this.go", "do_that.go", "index.go", "resources", "docs">>

\* The chunks of a response body that are one of the row file names.
FileChunks(body) == SelectSeq(body, LAMBDA c : \E n \in 1..5 : c = RowFiles[n])

\* The number of row fragments opened in a response body.
RowFragments(body) == Len(SelectSeq(body, LAMBDA c : c = "<tr>"))

\* C8: every call of the builder yields the same fixed record (the title,
\* seven integer counters with Commits = 31, five rows), and a successful
\* render emits one row fragment per row: five, in the order do_this.go,
\* do_that.go, index.go, resources, docs.
C8_FixedRowsInOrder ==
    \A i \in Slots : (Done(i) /\ reqs[i].h = "gui") =>
        /\ Len(reqs[i].data) = 1
        /\ LET d == reqs[i].data[1] IN
            /\ d.Title = "Golang Standalone GUI Example"
            /\ <<d.Unwatch, d.Star, d.Fork, d.Commits, d.Branch, d.Release,
                 d.Contributor>> = <<3, 0, 2, 31, 0, 1, 1>>
            /\ Len(d.RowsInTable) = 5
            /\ [n \in 1..5 |-> d.RowsInTable[n].File] = RowFiles
        /\ reqs[i].outcome = "rendered" =>
            /\ RowFragments(reqs[i].w.body) = 5
            /\ FileChunks(reqs[i].w.body) = RowFiles

C8_Witness ==
    \E i \in Slots :
        /\ Done(i) /\ reqs[i].outcome = "rendered"
        /\ RowFragments(reqs[i].w.body) = 5

\* C9: any two page requests, whatever the order and the overlap in which
\* they were handled and however many renders came before, are given the
\* same view model and produce the same response, byte for byte.
C9_RenderIdempotent ==
    \A i, j \in Slots :
        (Done(i) /\ Done(j) /\ reqs[i].h = "gui" /\ reqs[j].h = "gui") =>
            /\ reqs[i].data = reqs[j].data
            /\ reqs[i].w = reqs[j].w
            /\ reqs[i].outcome = reqs[j].outcome

C9_Witness ==
    \E i, j \in Slots :
        /\ i # j /\ renders >= 2
        /\ Done(i) /\ reqs[i].outcome = "rendered"
        /\ Done(j) /\ reqs[j].outcome = "rendered"

\* C10: main never gets past <-wait: nothing is ever sent on the channel,
\* "Finished normally" is never logged and the process never ends by main
\* returning.
C10_MainNeverReturns ==
    /\ wait = 0
    /\ mainPc # "returned"
    /\ proc \in {"running", "killed", "fatal: template", "fatal: listen",
                  "fatal: browser"}

C10_Witness ==
    /\ Running /\ mainPc = "wait" /\ lis = "listening" /\ browser = <<PageURL>>
    /\ \E i \in Slots : Done(i) /\ reqs[i].outcome = "rendered"

====
